---- MODULE Spec2Model ----
(***************************************************************************)
(* A model of huawei-obs-download/obs_multi.py: the resumable download of  *)
(* OBS buckets (HuaWeiDownLoad, HuaWeiBucket).                             *)
(*                                                                         *)
(* Strings are sequences of one-character strings.  A few multi-character  *)
(* atoms ("True", "R", "B", "h1", ...) stand for runs of characters that   *)
(* contain neither ':' nor '/' nor a newline, so that str.split,           *)
(* os.path.basename, os.path.join and the '%s:%s' formats are modelled by  *)
(* what they do to the separators.                                         *)
(***************************************************************************)
EXTENDS Naturals, Sequences, FiniteSets, TLC

(***************************************************************************)
(* Bounds of the model.                                                    *)
(***************************************************************************)
\* page size handed to listObjects (max_keys; the callers pass 500): below the
\* number of objects of a bucket, so that a listing has several pages
MaxKeys == 1
\* how many times the process may be killed or finish and be started again
MaxRestarts == 1
\* the interpreter's recursion limit, counted in download_failure frames
RecursionLimit == 2

(***************************************************************************)
(* Strings.                                                                *)
(***************************************************************************)
\* None, and the text '%s' makes of it
None == <<"None">>

\* the byte order of the characters that occur in keys
CharRank(c) ==
    CASE c = "/" -> 1
      [] c = ":" -> 2
      [] c = "a" -> 3
      [] c = "b" -> 4
      [] c = "d" -> 5
      [] c = "e" -> 6
      [] OTHER   -> 7

\* s < t for str, byte by byte
RECURSIVE StrLess(_, _)
StrLess(s, t) ==
    IF t = <<>> THEN FALSE
    ELSE IF s = <<>> THEN TRUE
    ELSE IF Head(s) = Head(t) THEN StrLess(Tail(s), Tail(t))
    ELSE CharRank(Head(s)) < CharRank(Head(t))

\* s.split(sep): the pieces between the separators, always at least one piece
RECURSIVE Split(_, _)
Split(s, sep) ==
    IF s = <<>> THEN << <<>> >>
    ELSE IF Head(s) = sep THEN << <<>> >> \o Split(Tail(s), sep)
    ELSE LET rest == Split(Tail(s), sep)
         IN  << <<Head(s)>> \o Head(rest) >> \o Tail(rest)

\* bool(s) of a str: the empty string alone is false
StrBool(s) == s # <<>>

\* '%s' % b of a bool
BoolStr(b) == IF b THEN <<"True">> ELSE <<"False">>

\* sep in s
Contains(s, sep) == \E i \in 1..Len(s) : s[i] = sep

\* os.path.basename(p): what follows the last '/'
Basename(p) == LET parts == Split(p, "/") IN parts[Len(parts)]

\* p without its trailing '/' characters, unless it is made of them alone
RECURSIVE RStripSlash(_)
RStripSlash(p) ==
    IF p # <<>> /\ p[Len(p)] = "/" THEN RStripSlash(SubSeq(p, 1, Len(p) - 1))
    ELSE p

\* os.path.dirname(p): what precedes the last '/', trailing slashes removed
Dirname(p) ==
    LET head == SubSeq(p, 1, Len(p) - Len(Basename(p)))
    IN  IF head # <<>> /\ RStripSlash(head) = <<>> THEN head ELSE RStripSlash(head)

\* os.path.join(a, b): b replaces a when absolute, else is appended after one '/'
Join2(a, b) ==
    IF b # <<>> /\ Head(b) = "/" THEN b
    ELSE IF a = <<>> \/ a[Len(a)] = "/" THEN a \o b
    ELSE a \o <<"/">> \o b

\* os.path.join(a, *parts)
RECURSIVE Join(_, _)
Join(a, parts) ==
    IF parts = <<>> THEN a ELSE Join(Join2(a, Head(parts)), Tail(parts))

(***************************************************************************)
(* The storage service (ObsClient) and the objects it holds.               *)
(***************************************************************************)
Ka   == <<"a">>
Kdir == <<"d", "/">>
Kda  == <<"d", "/", "a">>
Kdb  == <<"d", ":", "b">>
Ke   == <<"e">>

\* the bucket contents the runs are checked on
Configs == {"plain", "colon"}

\* the keys a bucket of the service holds
ServiceKeys(cfg) == IF cfg = "plain" THEN {Ka, Kdir, Kda} ELSE {Kdir, Kdb, Ke}

\* listBuckets(): the names of the buckets
BucketNames == << <<"B">>, <<"C">> >>

\* the bytes the service stores for a key, and the bytes of a damaged transfer
Data(k) == <<"data">> \o k
Corrupt == <<"corrupt">>

\* hashlib.md5(bytes).hexdigest(), one atom per content
Md5Hex(content) ==
    CASE content = Data(Ka)   -> "h1"
      [] content = Data(Kdir) -> "h2"
      [] content = Data(Kda)  -> "h3"
      [] content = Data(Kdb)  -> "h4"
      [] content = Data(Ke)   -> "h5"
      [] OTHER                -> "h0"

\* the ETag listObjects reports for a key: the quoted MD5 of its bytes
ServiceEtag(k) == <<"\"", Md5Hex(Data(k)), "\"">>

\* the least string of a non-empty set
MinStr(S) == CHOOSE x \in S : \A y \in S : y = x \/ StrLess(x, y)

\* a set of keys in the order the service lists them
RECURSIVE Sorted(_)
Sorted(S) == IF S = {} THEN <<>> ELSE <<MinStr(S)>> \o Sorted(S \ {MinStr(S)})

\* listObjects(bucketName, marker, max_keys): the keys after the marker, one page
ListObjects(cfg, marker, max_keys) ==
    LET after == {k \in ServiceKeys(cfg) : marker = None \/ StrLess(marker, k)}
        all   == Sorted(after)
        n     == IF Len(all) < max_keys THEN Len(all) ELSE max_keys
        page  == SubSeq(all, 1, n)
        trunc == Len(all) > max_keys
    IN  [is_truncated |-> trunc,
         next_marker  |-> IF trunc THEN page[n] ELSE None,
         contents     |-> [i \in 1..n |-> <<ServiceEtag(page[i]), page[i]>>]]

\* what a getObject call may do: raise, or deliver the bytes, sound or damaged
Outcomes == {"raise", "sound", "damaged"}

(***************************************************************************)
(* The local file system.                                                  *)
(***************************************************************************)
\* conf.download_storage_path[env]
DownloadPath == <<"R">>

\* a file that does not exist
NoFile == [ex |-> FALSE, txt |-> <<>>]

\* a file holding txt
FileOf(t) == [ex |-> TRUE, txt |-> t]

\* os.path.exists(p)
Exists(fs, ds, p) == p \in DOMAIN fs \/ p \in ds

\* a directory and the directories above it
RECURSIVE Ancestors(_)
Ancestors(p) ==
    IF p = <<>> \/ Dirname(p) = p THEN {}
    ELSE {p} \cup Ancestors(Dirname(p))

\* os.makedirs(p)
Makedirs(ds, p) == ds \cup Ancestors(p)

\* fs with the file at p written
WriteFile(fs, p, content) ==
    [q \in DOMAIN fs \cup {p} |-> IF q = p THEN content ELSE fs[q]]

\* Utils.md5sum(filename): the quoted hex digest of the file's bytes
Md5sum(content) == <<"\"">> \o <<Md5Hex(content)>> \o <<"\"">>

(***************************************************************************)
(* HuaWeiBucket: the pure parts of download_object.                        *)
(***************************************************************************)
\* the characters str.strip() removes
IsSpace(c) == c \in {"\n", " "}

\* s.strip()
RECURSIVE LStrip(_)
LStrip(s) == IF s # <<>> /\ IsSpace(Head(s)) THEN LStrip(Tail(s)) ELSE s
RECURSIVE RStrip(_)
RStrip(s) ==
    IF s # <<>> /\ IsSpace(s[Len(s)]) THEN RStrip(SubSeq(s, 1, Len(s) - 1)) ELSE s
Strip(s) == LStrip(RStrip(s))

\* f.readlines(): the lines of a text, each with its newline
Readlines(txt) ==
    LET parts == Split(txt, "\n")
        n     == Len(parts)
        full  == [i \in 1..(n - 1) |-> parts[i] \o <<"\n">>]
    IN  IF parts[n] = <<>> THEN full ELSE full \o <<parts[n]>>

\* '%s:%s' % (a, b)
Colon(a, b) == a \o <<":">> \o b

\* os.path.join(self._download_path, self._bucket_name)
BucketPath(b) == Join(DownloadPath, <<b>>)

\* bucket_path if bucket_path else self._download_path
BasePath(bucket_path) == IF bucket_path = None THEN DownloadPath ELSE bucket_path

\* object_path of _check_object_and_catalog
ObjectPath(base, key) ==
    IF Contains(key, "/") THEN Join(base, Split(key, "/")) ELSE Join(base, <<key>>)

\* down_load_path of _check_object_and_catalog
DownLoadDir(base, key) ==
    IF Contains(key, "/") THEN Join(base, Split(Dirname(key), "/")) ELSE base

\* the file getObject writes, and download_object verifies:
\* os.path.join(down_load_path, os.path.basename(object_key))
WrittenPath(base, key) == Join(DownLoadDir(base, key), <<Basename(key)>>)

\* _check_object_and_catalog without its checksum comparison
CheckWithoutChecksum(etag, key, base, fs, ds) ==
    IF Basename(key) = <<>> THEN 2 ELSE 0

\* _check_object_and_catalog without its basename test
CheckWithoutBasename(etag, key, base, fs, ds) ==
    IF /\ ObjectPath(base, key) \in DOMAIN fs
       /\ Md5sum(fs[ObjectPath(base, key)]) = etag THEN 1
    ELSE 0

\* what _check_object_and_catalog returns: 2, 1, or 0 for the directory path
CheckObjectAndCatalog(etag, key, base, fs, ds) ==
    IF Basename(key) = <<>> THEN 2
    ELSE IF /\ Exists(fs, ds, ObjectPath(base, key))
            /\ ObjectPath(base, key) \in DOMAIN fs
            /\ Md5sum(fs[ObjectPath(base, key)]) = etag THEN 1
    ELSE 0

\* the directories after _check_object_and_catalog returned the directory path
CatalogDirs(base, key, fs, ds) ==
    IF ~Exists(fs, ds, DownLoadDir(base, key))
    THEN Makedirs(ds, DownLoadDir(base, key)) ELSE ds

\* the bytes a getObject call that does not raise leaves in the file
Delivered(key, outcome) == IF outcome = "sound" THEN Data(key) ELSE Corrupt

\* the files after the getObject call of download_object
FetchFiles(key, base, fs, outcome) ==
    IF outcome = "raise" THEN fs
    ELSE WriteFile(fs, WrittenPath(base, key), Delivered(key, outcome))

\* download_object returning 1 from its except branch
FetchResultRaiseIsSuccess(etag, key, base, fs, outcome) ==
    IF outcome = "raise" THEN 1
    ELSE IF etag # None /\ etag # <<>>
         THEN (IF Md5sum(fs[WrittenPath(base, key)]) = etag THEN 1 ELSE 0)
    ELSE 1

\* download_object without the comparison of the written file's checksum
FetchResultUnverified(etag, key, base, fs, outcome) ==
    IF outcome = "raise" THEN 0 ELSE 1

\* what download_object returns after its getObject call, fs being the files
\* the call left: 0 when it raised, else the checksum comparison when an etag
\* was given, and 1 when none was
FetchResult(etag, key, base, fs, outcome) ==
    IF outcome = "raise" THEN 0
    ELSE IF etag # None /\ etag # <<>>
         THEN (IF Md5sum(fs[WrittenPath(base, key)]) = etag THEN 1 ELSE 0)
    ELSE 1

(***************************************************************************)
(* State.                                                                  *)
(***************************************************************************)
VARIABLES
    \* the disk: downloaded files, directories, and the progress files of logs/
    files, dirs, markerFile, ledgerFile, bucketFile, corrFile,
    \* the command the process runs, the contents of the service, and the page
    \* size the HuaWeiBucket is built with (self._max_keys)
    mode, cfg, max_keys,
    \* where the process is, and the HuaWeiBucket it works on
    pc, bucket, is_truncated, next_marker,
    \* the page download_all_object works on: its items and their greenlets
    keys, tasks,
    \* the frame of download_failure
    lines, idx, second_failure, rpath, depth,
    \* HuaWeiDownLoad: self._next_bucket and the position of the bucket loop
    next_bucket, bi,
    \* how many times the process was started again
    restarts,
    \* observations: the last call made, how the replay ended, the keys listed
    \* in this run, the page a kill interrupted, the markers written and
    \* loaded, the buckets downloaded in this run, the bucket found recorded
    \* when the run began, the keys a pass of the replay fetched by key alone
    ev, replayExit, listed, interrupted, persisted, resume, processed, recorded,
    converged

disk == <<files, dirs, markerFile, ledgerFile, bucketFile, corrFile>>
inputs == <<mode, cfg, max_keys>>
page == <<keys, tasks>>
frame == <<lines, idx, second_failure, rpath, depth>>
outer == <<next_bucket, bi>>
vars == <<files, dirs, markerFile, ledgerFile, bucketFile, corrFile, mode, cfg,
          max_keys, pc, bucket,
          is_truncated, next_marker, keys, tasks, lines, idx, second_failure,
          rpath, depth, next_bucket, bi, restarts, ev, replayExit,
          listed, interrupted, persisted, resume, processed, recorded, converged>>

BucketSet == {BucketNames[i] : i \in 1..Len(BucketNames)}

\* the commands: main() with the action download or verify, and
\* download_all_buckets
Modes == {"download", "verify", "all"}

\* an observation of a call
Event(op, key, etag, base, ret, net) ==
    [op |-> op, key |-> key, etag |-> etag, base |-> base, ret |-> ret, net |-> net]

NoEvent == Event("none", <<>>, None, None, 1, FALSE)

\* an observation of a path_object_mov call, and of what it did to the files
FsEvent(key, etag, base, ret, did) ==
    [op |-> "path_object_mov", key |-> key, etag |-> etag, base |-> base,
     ret |-> ret, net |-> FALSE, did |-> did]

\* the fields a process start leaves in memory
Fresh ==
    /\ pc' = "start"
    /\ bucket' = BucketNames[1]
    /\ is_truncated' = TRUE
    /\ next_marker' = None
    /\ keys' = <<>>
    /\ tasks' = <<>>
    /\ lines' = <<>>
    /\ idx' = 0
    /\ second_failure' = <<>>
    /\ rpath' = None
    /\ depth' = 0
    /\ next_bucket' = None
    /\ bi' = 0
    /\ ev' = NoEvent
    /\ replayExit' = "none"
    /\ listed' = {}
    /\ resume' = None
    /\ processed' = <<>>
    /\ recorded' = None
    /\ converged' = {}

\* the state when command m is first run, on an empty download directory, with
\* a page size of sizes
Begin(m, sizes) ==
    /\ mode = m
    /\ max_keys \in sizes
    /\ corrFile = [b \in BucketSet |-> NoFile]
    /\ files = << >>
    /\ dirs = {DownloadPath}
    /\ markerFile = [b \in BucketSet |-> NoFile]
    /\ ledgerFile = [b \in BucketSet |-> NoFile]
    /\ bucketFile = NoFile
    /\ cfg \in Configs
    /\ pc = "start"
    /\ bucket = BucketNames[1]
    /\ is_truncated = TRUE
    /\ next_marker = None
    /\ keys = <<>>
    /\ tasks = <<>>
    /\ lines = <<>>
    /\ idx = 0
    /\ second_failure = <<>>
    /\ rpath = None
    /\ depth = 0
    /\ next_bucket = None
    /\ bi = 0
    /\ restarts = 0
    /\ ev = NoEvent
    /\ replayExit = "none"
    /\ listed = {}
    /\ interrupted = {}
    /\ persisted = [b \in BucketSet |-> None]
    /\ resume = None
    /\ processed = <<>>
    /\ recorded = None
    /\ converged = {}

\* the state when command m is first run with the page size of the callers
Start(m) == Begin(m, {MaxKeys})


(***************************************************************************)
(* HuaWeiBucket: construction and the page loop of download_all_object.    *)
(***************************************************************************)
\* _set_progress_marker: the (is_truncated, next_marker) the constructor leaves
ProgressMarker(f) ==
    IF f.ex /\ f.txt # <<>>
    THEN LET record == Split(f.txt, ":")
         IN  [is_truncated |-> StrBool(record[1]), next_marker |-> record[2]]
    ELSE [is_truncated |-> TRUE, next_marker |-> None]

\* '%s:%s' % (self._is_truncated, self._next_marker), the text of the marker file
MarkerText(trunc, marker) == Colon(BoolStr(trunc), marker)

\* whether _get_all_object writes the marker file for a response
WritesMarker(resp) == resp.is_truncated

\* HuaWeiBucket(bucket_name, max_keys=500, download_path): main() builds it for
\* the bucket of the command line, download_all_buckets for the current bucket
Construct ==
    /\ \/ pc = "start" /\ mode # "all"
       \/ pc = "new_bucket"
    /\ LET m == ProgressMarker(markerFile[bucket])
       IN  /\ is_truncated' = m.is_truncated
           /\ next_marker' = m.next_marker
           /\ resume' = IF markerFile[bucket].ex /\ markerFile[bucket].txt # <<>>
                        THEN persisted[bucket] ELSE None
    /\ pc' = "constructed"
    /\ ev' = Event("construct", <<>>, None, None, 1, FALSE)
    /\ listed' = {}
    /\ UNCHANGED <<disk, inputs, bucket, page, frame, outer, restarts,
                   replayExit, interrupted, persisted, processed, recorded,
                   converged>>

\* download_all_object, up to its loop: the bucket's directory is made
DownloadAllObjectBegin ==
    /\ pc = "constructed"
    /\ mode \in {"download", "all"}
    /\ dirs' = IF ~Exists(files, dirs, BucketPath(bucket))
               THEN Makedirs(dirs, BucketPath(bucket)) ELSE dirs
    /\ pc' = "loop"
    /\ ev' = Event("download_all_object", <<>>, None, BucketPath(bucket), 1, FALSE)
    /\ UNCHANGED <<files, markerFile, ledgerFile, bucketFile, corrFile, inputs, bucket,
                   is_truncated, next_marker, page, frame, outer, restarts, replayExit, listed, interrupted, persisted, resume,
                   processed, recorded, converged>>

\* the greenlets download_all_object spawns for the items of a page;
\* path_correction spawns none
Spawn(items) ==
    IF mode = "verify" THEN <<>> ELSE [i \in 1..Len(items) |-> "spawned"]

\* where the caller of _get_all_object goes with the page it returned:
\* `if keys:` of download_all_object and of path_correction
PagePc(items) ==
    IF items = <<>> THEN "loop"
    ELSE IF mode = "verify" THEN "correct_open" ELSE "join"

\* _get_all_object when listObjects answers.  The marker file is opened for
\* writing (and so emptied) here and receives its text when it is closed.
GetAllObject ==
    /\ pc = "loop"
    /\ is_truncated
    /\ LET resp == ListObjects(cfg, next_marker, max_keys)
       IN  /\ is_truncated' = resp.is_truncated
           /\ next_marker' = resp.next_marker
           /\ keys' = resp.contents
           /\ listed' = listed \cup {resp.contents[i][2] : i \in 1..Len(resp.contents)}
           /\ ev' = Event("listObjects", next_marker, None, None, 1, TRUE)
           /\ IF WritesMarker(resp)
              THEN /\ markerFile' = [markerFile EXCEPT ![bucket] = FileOf(<<>>)]
                   /\ pc' = "marker_write"
                   /\ tasks' = <<>>
              ELSE /\ markerFile' = markerFile
                   /\ pc' = PagePc(resp.contents)
                   /\ tasks' = Spawn(resp.contents)
    /\ UNCHANGED <<files, dirs, ledgerFile, bucketFile, corrFile, inputs, bucket, frame, outer,
                   restarts, replayExit, interrupted, persisted, resume,
                   processed, recorded, converged>>

\* the marker file is closed with its text, _get_all_object returns the page
\* and download_all_object spawns one greenlet for each of its items
MarkerWrite ==
    /\ pc = "marker_write"
    /\ markerFile' = [markerFile EXCEPT
                        ![bucket] = FileOf(MarkerText(is_truncated, next_marker))]
    /\ persisted' = [persisted EXCEPT ![bucket] = next_marker]
    /\ tasks' = Spawn(keys)
    /\ pc' = PagePc(keys)
    /\ ev' = Event("marker", next_marker, None, None, 1, FALSE)
    /\ UNCHANGED <<files, dirs, ledgerFile, bucketFile, corrFile, inputs, bucket, is_truncated,
                   next_marker, keys, frame, outer, restarts, replayExit,
                   listed, interrupted, resume, processed, recorded, converged>>

\* the except branch of _get_all_object forgetting the position of the listing
ListingFailedResets(trunc, marker) == [is_truncated |-> TRUE, next_marker |-> None]

\* self._is_truncated and self._next_marker after the except branch of
\* _get_all_object: it prints the error and assigns nothing
ListingFailed(trunc, marker) == [is_truncated |-> trunc, next_marker |-> marker]

\* _get_all_object when listObjects raises: the error is printed, None returned
GetAllObjectFail ==
    /\ pc = "loop"
    /\ is_truncated
    /\ is_truncated' = ListingFailed(is_truncated, next_marker).is_truncated
    /\ next_marker' = ListingFailed(is_truncated, next_marker).next_marker
    /\ ev' = Event("listObjects", next_marker, None, None, 0, TRUE)
    /\ UNCHANGED <<disk, inputs, pc, bucket, page, frame,
                   outer, restarts, replayExit, listed, interrupted, persisted,
                   resume, processed, recorded, converged>>

\* _log_download_failure writing the record without its newline
LogWithoutNewline(f, info) == FileOf(f.txt \o info)

\* the ledger with one line appended: open(..., 'ab') and write('%s\n' % info).
\* A greenlet is left only at a call that blocks in gevent, and none is made
\* between the open and the close of the file.
LogDownloadFailure(f, info) == FileOf(f.txt \o info \o <<"\n">>)

\* pack_download up to the getObject call of download_object
PackDownloadStart(i) ==
    /\ pc = "join"
    /\ tasks[i] = "spawned"
    /\ LET etag == keys[i][1]
           key  == keys[i][2]
           base == BasePath(BucketPath(bucket))
           code == CheckObjectAndCatalog(etag, key, base, files, dirs)
       IN  IF code \in {1, 2}
           THEN /\ tasks' = [tasks EXCEPT ![i] = "done"]
                /\ dirs' = dirs
                /\ ev' = Event("download_object", key, etag, base, 1, FALSE)
           ELSE /\ tasks' = [tasks EXCEPT ![i] = "fetching"]
                /\ dirs' = CatalogDirs(base, key, files, dirs)
                /\ ev' = Event("getObject", key, etag, base, 1, TRUE)
    /\ UNCHANGED <<files, markerFile, ledgerFile, bucketFile, corrFile, inputs, pc, bucket,
                   is_truncated, next_marker, keys, frame, outer, restarts, replayExit, listed, interrupted, persisted, resume,
                   processed, recorded, converged>>

\* the getObject call of a greenlet ends; download_object returns and
\* pack_download logs a failure to the ledger
PackDownloadFinish(i) ==
    /\ pc = "join"
    /\ tasks[i] = "fetching"
    /\ \E o \in Outcomes :
         LET etag == keys[i][1]
             key  == keys[i][2]
             base == BasePath(BucketPath(bucket))
             fs   == FetchFiles(key, base, files, o)
             ret  == FetchResult(etag, key, base, fs, o)
         IN  /\ files' = fs
             /\ ledgerFile' = IF ret = 0
                              THEN [ledgerFile EXCEPT ![bucket] =
                                      LogDownloadFailure(@, Colon(etag, key))]
                              ELSE ledgerFile
             /\ ev' = Event("download_object", key, etag, base, ret, TRUE)
    /\ tasks' = [tasks EXCEPT ![i] = "done"]
    /\ UNCHANGED <<dirs, markerFile, bucketFile, corrFile, inputs, pc, bucket, is_truncated,
                   next_marker, keys, frame, outer, restarts, replayExit,
                   listed, interrupted, persisted, resume, processed, recorded, converged>>

\* a joinall that returns as soon as one greenlet has ended
AnyDone(ts) == \E i \in 1..Len(ts) : ts[i] = "done"

\* what gevent.joinall(tasks) waits for: every greenlet has ended
AllDone(ts) == \A i \in 1..Len(ts) : ts[i] = "done"

\* gevent.joinall(tasks) returns: every greenlet of the page has ended
JoinAll ==
    /\ pc = "join"
    /\ AllDone(tasks)
    /\ pc' = "loop"
    /\ keys' = <<>>
    /\ tasks' = <<>>
    /\ ev' = Event("joinall", <<>>, None, None, 1, FALSE)
    /\ UNCHANGED <<disk, inputs, bucket, is_truncated, next_marker, frame, outer,
                   restarts, replayExit, listed, interrupted, persisted,
                   resume, processed, recorded, converged>>

(***************************************************************************)
(* HuaWeiBucket.download_failure: the replay of the failure ledger.        *)
(***************************************************************************)
\* download_all_object (or again_failure_supported) is left: main() ends, or
\* download_all_buckets goes on to the next bucket of its loop
Return(how) ==
    /\ replayExit' = how
    /\ lines' = <<>>
    /\ idx' = 0
    /\ second_failure' = <<>>
    /\ rpath' = None
    /\ depth' = 0
    /\ pc' = IF mode = "all" THEN "buckets" ELSE "exit"
    /\ bi' = IF mode = "all" THEN bi + 1 ELSE bi

\* a call download_failure(bucket_path) that makes d frames of it nested: the
\* ledger ledger is read, and without lines to replay the call returns
Enter(ledger, bucket_path, d) ==
    IF ledger.ex /\ Readlines(ledger.txt) # <<>>
    THEN /\ lines' = Readlines(ledger.txt)
         /\ idx' = 1
         /\ second_failure' = <<>>
         /\ rpath' = bucket_path
         /\ depth' = d
         /\ pc' = "replay"
         /\ converged' = {}
         /\ UNCHANGED <<replayExit, bi>>
    ELSE Return("returned") /\ UNCHANGED converged

\* the path download_all_object passes to download_failure
FirstPassPath(b) == BucketPath(b)

\* the path download_failure passes to itself after the cooldown
NextPassPath(b) == None

\* the loop of download_all_object ends and the replay is called
LoopExit ==
    /\ pc = "loop"
    /\ mode \in {"download", "all"}
    /\ ~is_truncated
    /\ Enter(ledgerFile[bucket], FirstPassPath(bucket), 0)
    /\ ev' = Event("download_failure", <<>>, None, FirstPassPath(bucket), 1, FALSE)
    /\ UNCHANGED <<disk, inputs, bucket, is_truncated, next_marker, page,
                   next_bucket, restarts, listed, interrupted,
                   persisted, resume, processed, recorded>>

\* tuple(i.split(':')) of a stripped ledger line
Record(line) == Split(Strip(line), ":")

\* download_failure keeping the result of its first attempt
CombinedFirstOnly(first, second) == first

\* result of the checksum attempt and of the key-only attempt, as
\* download_failure combines them
Combined(first, second) == IF first = 0 THEN second ELSE first

\* one line of the ledger: download_object((etag, key), bucket_path)
ReplayVerified ==
    /\ pc = "replay"
    /\ idx <= Len(lines)
    /\ IF Strip(lines[idx]) = <<>>
       THEN /\ idx' = idx + 1
            /\ ev' = Event("blank", <<>>, None, None, 1, FALSE)
            /\ UNCHANGED <<files, dirs, pc, lines, second_failure, rpath, depth,
                           replayExit, bi>>
       ELSE IF Len(Record(lines[idx])) # 2
       THEN \* etag, object_key = object_md5_key raises ValueError
            /\ Return("ValueError")
            /\ ev' = Event("unpack", Strip(lines[idx]), None, None, 0, FALSE)
            /\ UNCHANGED <<files, dirs>>
       ELSE LET etag == Record(lines[idx])[1]
                key  == Record(lines[idx])[2]
                base == BasePath(rpath)
                code == CheckObjectAndCatalog(etag, key, base, files, dirs)
            IN  IF code \in {1, 2}
                THEN /\ idx' = idx + 1
                     /\ ev' = Event("replay_verified", key, etag, base, 1, FALSE)
                     /\ UNCHANGED <<files, dirs, pc, lines, second_failure, rpath,
                                    depth, replayExit, bi>>
                ELSE \E o \in Outcomes :
                       LET fs  == FetchFiles(key, base, files, o)
                           ret == FetchResult(etag, key, base, fs, o)
                       IN  /\ files' = fs
                           /\ dirs' = CatalogDirs(base, key, files, dirs)
                           /\ ev' = Event("replay_verified", key, etag, base, ret, TRUE)
                           /\ idx' = IF ret = 0 THEN idx ELSE idx + 1
                           /\ pc' = IF ret = 0 THEN "replay_key" ELSE "replay"
                           /\ UNCHANGED <<lines, second_failure, rpath, depth,
                                          replayExit, bi>>
    /\ UNCHANGED <<markerFile, ledgerFile, bucketFile, corrFile, inputs, bucket, is_truncated,
                   next_marker, page, next_bucket, restarts, listed,
                   interrupted, persisted, resume, processed, recorded, converged>>

\* the same line again, by its key alone: download_object(i[-1], bucket_path)
ReplayKeyOnly ==
    /\ pc = "replay_key"
    /\ LET rec  == Record(lines[idx])
           key  == rec[Len(rec)]
           base == BasePath(rpath)
           code == CheckObjectAndCatalog(None, key, base, files, dirs)
       IN  IF code \in {1, 2}
           THEN /\ ev' = Event("replay_keyonly", key, None, base, 1, FALSE)
                /\ UNCHANGED <<files, dirs, second_failure, converged>>
           ELSE \E o \in Outcomes :
                  LET fs  == FetchFiles(key, base, files, o)
                      ret == FetchResult(None, key, base, fs, o)
                  IN  /\ files' = fs
                      /\ dirs' = CatalogDirs(base, key, files, dirs)
                      /\ ev' = Event("replay_keyonly", key, None, base, ret, TRUE)
                      /\ second_failure' = IF Combined(0, ret) = 0
                                           THEN Append(second_failure, rec)
                                           ELSE second_failure
                      /\ converged' = IF ret = 0 THEN converged
                                      ELSE converged \cup {key}
    /\ idx' = idx + 1
    /\ pc' = "replay"
    /\ UNCHANGED <<markerFile, ledgerFile, bucketFile, corrFile, inputs, bucket, is_truncated,
                   next_marker, page, lines, rpath, depth, outer, restarts,
                   replayExit, listed, interrupted, persisted, resume, processed,
                   recorded>>

\* the text download_failure writes for second_failure: '%s:%s\n' % i for each
RECURSIVE LedgerText(_)
LedgerText(recs) ==
    IF recs = <<>> THEN <<>>
    ELSE Colon(Head(recs)[1], Head(recs)[2]) \o <<"\n">> \o LedgerText(Tail(recs))

\* every line was tried: os.remove(self._download_failure)
ReplayRemove ==
    /\ pc = "replay"
    /\ idx > Len(lines)
    /\ ledgerFile' = [ledgerFile EXCEPT ![bucket] = NoFile]
    /\ ev' = Event("remove", <<>>, None, None, 1, FALSE)
    /\ IF second_failure # <<>>
       THEN /\ pc' = "replay_write"
            /\ UNCHANGED <<lines, idx, second_failure, rpath, depth, replayExit, bi>>
       ELSE Return("returned")
    /\ UNCHANGED <<files, dirs, markerFile, bucketFile, corrFile, inputs, bucket, is_truncated,
                   next_marker, page, next_bucket, restarts, listed,
                   interrupted, persisted, resume, processed, recorded, converged>>

\* the records that failed again are written to a new ledger
ReplayWrite ==
    /\ pc = "replay_write"
    /\ ledgerFile' = [ledgerFile EXCEPT ![bucket] = FileOf(LedgerText(second_failure))]
    /\ pc' = "cooldown"
    /\ ev' = Event("rewrite", <<>>, None, None, 1, FALSE)
    /\ UNCHANGED <<files, dirs, markerFile, bucketFile, corrFile, inputs, bucket, is_truncated,
                   next_marker, page, frame, outer, restarts, replayExit,
                   listed, interrupted, persisted, resume, processed, recorded, converged>>

\* whether one more frame of download_failure exceeds the recursion limit
StackExhausted(d) == d + 1 >= RecursionLimit

\* time.sleep(60), then self.download_failure(): one more frame, or the
\* RuntimeError of the recursion limit, which download_all_object catches
ReplayRecurse ==
    /\ pc = "cooldown"
    /\ IF StackExhausted(depth)
       THEN Return("RuntimeError") /\ UNCHANGED converged
       ELSE Enter(ledgerFile[bucket], NextPassPath(bucket), depth + 1)
    /\ ev' = Event("download_failure", <<>>, None, NextPassPath(bucket), 1, FALSE)
    /\ UNCHANGED <<disk, inputs, bucket, is_truncated, next_marker, page,
                   next_bucket, restarts, listed, interrupted,
                   persisted, resume, processed, recorded>>

(***************************************************************************)
(* HuaWeiDownLoad.download_all_buckets.                                    *)
(***************************************************************************)
\* _set_progress_bucket: self._next_bucket after the constructor
ProgressBucket(f) == IF f.ex /\ f.txt # <<>> THEN f.txt ELSE None

\* the test of the bucket loop: self._next_bucket and bucket != self._next_bucket
SkipsBucket(nb, b) == nb # None /\ nb # <<>> /\ b # nb

\* HuaWeiDownLoad(...) and the listBuckets call of download_all_buckets
ConstructDownLoad ==
    /\ pc = "start"
    /\ mode = "all"
    /\ next_bucket' = ProgressBucket(bucketFile)
    /\ recorded' = ProgressBucket(bucketFile)
    /\ bi' = 1
    /\ pc' = "buckets"
    /\ ev' = Event("listBuckets", <<>>, None, None, 1, TRUE)
    /\ UNCHANGED <<disk, inputs, bucket, is_truncated, next_marker, page, frame,
                   restarts, replayExit, listed, interrupted, persisted,
                   resume, processed, converged>>

\* an iteration of the bucket loop that continues
BucketSkip ==
    /\ pc = "buckets"
    /\ bi <= Len(BucketNames)
    /\ SkipsBucket(next_bucket, BucketNames[bi])
    /\ bi' = bi + 1
    /\ ev' = Event("skip_bucket", BucketNames[bi], None, None, 1, FALSE)
    /\ UNCHANGED <<disk, inputs, pc, bucket, is_truncated, next_marker, page, frame,
                   next_bucket, restarts, replayExit, listed,
                   interrupted, persisted, resume, processed, recorded, converged>>

\* an iteration that records its bucket: download_bucket.txt is opened, emptied
BucketRecord ==
    /\ pc = "buckets"
    /\ bi <= Len(BucketNames)
    /\ ~SkipsBucket(next_bucket, BucketNames[bi])
    /\ next_bucket' = BucketNames[bi]
    /\ bucketFile' = FileOf(<<>>)
    /\ pc' = "bucket_write"
    /\ ev' = Event("record_bucket", BucketNames[bi], None, None, 1, FALSE)
    /\ UNCHANGED <<files, dirs, markerFile, ledgerFile, corrFile, inputs, bucket,
                   is_truncated, next_marker, page, frame, bi, restarts, replayExit,
                   listed, interrupted, persisted, resume, processed, recorded, converged>>

\* download_bucket.txt is closed with the bucket's name; the bucket's
\* HuaWeiBucket is about to be built and its download_all_object called
BucketWrite ==
    /\ pc = "bucket_write"
    /\ bucketFile' = FileOf(next_bucket)
    /\ bucket' = BucketNames[bi]
    /\ processed' = Append(processed, BucketNames[bi])
    /\ pc' = "new_bucket"
    /\ ev' = Event("bucket", BucketNames[bi], None, None, 1, FALSE)
    /\ UNCHANGED <<files, dirs, markerFile, ledgerFile, corrFile, inputs,
                   is_truncated, next_marker, page, frame, outer, restarts, replayExit,
                   listed, interrupted, persisted, resume, recorded, converged>>

\* the bucket loop ends
BucketsDone ==
    /\ pc = "buckets"
    /\ bi > Len(BucketNames)
    /\ pc' = "exit"
    /\ ev' = Event("finished", <<>>, None, None, 1, FALSE)
    /\ UNCHANGED <<disk, inputs, bucket, is_truncated, next_marker, page, frame,
                   outer, restarts, replayExit, listed, interrupted,
                   persisted, resume, processed, recorded, converged>>

(***************************************************************************)
(* HuaWeiBucket.path_correction and path_object_mov (the command verify).  *)
(***************************************************************************)
\* how an os.remove or shutil.move call ends
FsOutcomes == {"done", "raise"}

\* os.path.join(bucket_path, base_name): where the key's file lies when it was
\* stored in the bucket's directory itself
FlatPath(bucket_path, key) == Join(bucket_path, <<Basename(key)>>)

\* os.path.join(down_load_path, base_name): where the key's file belongs
NestedPath(bucket_path, key) == WrittenPath(BasePath(bucket_path), key)

\* path_correct of path_object_mov, code being what _check_object_and_catalog
\* returned and ds the directories it left
PathCorrect(code, key, bucket_path, fs, ds) ==
    code = 1 \/ Exists(fs, ds, NestedPath(bucket_path, key))

\* path_error of path_object_mov
PathError(key, bucket_path, fs, ds) == Exists(fs, ds, FlatPath(bucket_path, key))

\* shutil.move of the file from to the path to
MoveFile(fs, from, to) ==
    [q \in (DOMAIN fs \ {from}) \cup {to} |-> IF q = to THEN fs[from] ELSE fs[q]]

\* os.remove of the file p
RemoveFile(fs, p) == [q \in DOMAIN fs \ {p} |-> fs[q]]

\* path_object_mov that moves the flat file although the nested one exists
PathObjectMovAlwaysMoves(etag, key, bucket_path, fs, ds, outcome) ==
    LET base == BasePath(bucket_path)
        code == CheckObjectAndCatalog(etag, key, base, fs, ds)
        ds1  == IF code = 0 THEN CatalogDirs(base, key, fs, ds) ELSE ds
        flat == FlatPath(bucket_path, key)
    IN  IF code = 2 \/ ~Contains(key, "/") \/ ~PathError(key, bucket_path, fs, ds1)
        THEN [files |-> fs, dirs |-> ds1, ret |-> 1, did |-> "nothing"]
        ELSE IF outcome = "raise" \/ flat \notin DOMAIN fs
        THEN [files |-> fs, dirs |-> ds1, ret |-> 0, did |-> "nothing"]
        ELSE [files |-> MoveFile(fs, flat, NestedPath(bucket_path, key)),
              dirs |-> ds1, ret |-> 1, did |-> "move"]

\* path_object_mov that leaves the flat file where it is
PathObjectMovKeepsFlat(etag, key, bucket_path, fs, ds, outcome) ==
    LET base == BasePath(bucket_path)
        code == CheckObjectAndCatalog(etag, key, base, fs, ds)
        ds1  == IF code = 0 THEN CatalogDirs(base, key, fs, ds) ELSE ds
        flat == FlatPath(bucket_path, key)
    IN  IF /\ code # 2
           /\ Contains(key, "/")
           /\ ~PathCorrect(code, key, bucket_path, fs, ds1)
           /\ PathError(key, bucket_path, fs, ds1)
           /\ outcome # "raise"
           /\ flat \in DOMAIN fs
        THEN [files |-> fs @@ (NestedPath(bucket_path, key) :> fs[flat]),
              dirs |-> ds1, ret |-> 1, did |-> "move"]
        ELSE [files |-> fs, dirs |-> ds1, ret |-> 1, did |-> "nothing"]

\* path_object_mov((etag, key), bucket_path) on the files fs and directories
\* ds: the files and directories it leaves and what it returns.  A directory
\* at the flat path makes os.remove raise; shutil.move of a directory is not
\* modelled further, no basename of the buckets' keys names a directory.
\* did tells which of os.remove and shutil.move was carried out.
PathObjectMov(etag, key, bucket_path, fs, ds, outcome) ==
    LET base    == BasePath(bucket_path)
        code    == CheckObjectAndCatalog(etag, key, base, fs, ds)
        ds1     == IF code = 0 THEN CatalogDirs(base, key, fs, ds) ELSE ds
        flat    == FlatPath(bucket_path, key)
        correct == PathCorrect(code, key, bucket_path, fs, ds1)
        error   == PathError(key, bucket_path, fs, ds1)
    IN  IF code = 2 THEN [files |-> fs, dirs |-> ds, ret |-> 1, did |-> "nothing"]
        ELSE IF ~Contains(key, "/") \/ ~error
        THEN [files |-> fs, dirs |-> ds1, ret |-> 1, did |-> "nothing"]
        ELSE IF outcome = "raise" \/ flat \notin DOMAIN fs
        THEN [files |-> fs, dirs |-> ds1, ret |-> 0, did |-> "nothing"]
        ELSE IF correct
        THEN [files |-> RemoveFile(fs, flat), dirs |-> ds1, ret |-> 1,
              did |-> "remove"]
        ELSE [files |-> MoveFile(fs, flat, NestedPath(bucket_path, key)),
              dirs |-> ds1, ret |-> 1, did |-> "move"]

\* path_correction, up to its loop: the bucket's directory is made and the
\* correction_failure.log of an earlier pass removed
PathCorrectionBegin ==
    /\ pc = "constructed"
    /\ mode = "verify"
    /\ dirs' = IF ~Exists(files, dirs, BucketPath(bucket))
               THEN Makedirs(dirs, BucketPath(bucket)) ELSE dirs
    /\ corrFile' = [corrFile EXCEPT ![bucket] = NoFile]
    /\ pc' = "loop"
    /\ ev' = Event("path_correction", <<>>, None, BucketPath(bucket), 1, FALSE)
    /\ UNCHANGED <<files, markerFile, ledgerFile, bucketFile, inputs, bucket,
                   is_truncated, next_marker, page, frame, outer, restarts,
                   replayExit, listed, interrupted, persisted, resume,
                   processed, recorded, converged>>

\* open(corr_failure_path, 'ab') for a page that has items
OpenCorrection ==
    /\ pc = "correct_open"
    /\ corrFile' = [corrFile EXCEPT ![bucket] = FileOf(@.txt)]
    /\ pc' = "correct"
    /\ ev' = Event("open", <<>>, None, None, 1, FALSE)
    /\ UNCHANGED <<files, dirs, markerFile, ledgerFile, bucketFile, inputs, bucket,
                   is_truncated, next_marker, page, frame, outer, restarts,
                   replayExit, listed, interrupted, persisted, resume,
                   processed, recorded, converged>>

\* one iteration of `for item in keys`: path_object_mov(item), and when it
\* returns 0 the line "MoveObjectFailure ==> %s" % item, which raises
\* TypeError because item is the pair (etag, key): the exception leaves
\* path_correction and main(), nothing is written to correction_failure.log
CorrectItem ==
    /\ pc = "correct"
    /\ keys # <<>>
    /\ \E o \in FsOutcomes :
         LET etag == keys[1][1]
             key  == keys[1][2]
             r    == PathObjectMov(etag, key, BucketPath(bucket), files, dirs, o)
         IN  /\ files' = r.files
             /\ dirs' = r.dirs
             /\ ev' = FsEvent(key, etag, BucketPath(bucket), r.ret, r.did)
             /\ IF r.ret = 0
                THEN /\ keys' = keys
                     /\ pc' = "exit"
                ELSE /\ keys' = Tail(keys)
                     /\ pc' = IF Tail(keys) = <<>> THEN "loop" ELSE "correct"
    /\ UNCHANGED <<markerFile, ledgerFile, bucketFile, corrFile, inputs, bucket,
                   is_truncated, next_marker, tasks, frame, outer, restarts,
                   replayExit, listed, interrupted, persisted, resume,
                   processed, recorded, converged>>

\* the loop of path_correction ends
PathCorrectionDone ==
    /\ pc = "loop"
    /\ mode = "verify"
    /\ ~is_truncated
    /\ pc' = "exit"
    /\ ev' = Event("finished", <<>>, None, None, 1, FALSE)
    /\ UNCHANGED <<disk, inputs, bucket, is_truncated, next_marker, page, frame,
                   outer, restarts, replayExit, listed, interrupted,
                   persisted, resume, processed, recorded, converged>>

(***************************************************************************)
(* The process is killed, or has ended, and the same command is run again: *)
(* memory is lost, the disk is kept.                                       *)
(***************************************************************************)
Restart ==
    /\ pc # "start"
    /\ restarts < MaxRestarts
    /\ restarts' = restarts + 1
    /\ interrupted' = IF pc = "join"
                      THEN {keys[i][2] : i \in 1..Len(keys)} ELSE {}
    /\ Fresh
    /\ UNCHANGED <<disk, inputs, persisted>>

\* the steps of a HuaWeiBucket
BucketStep ==
    \/ Construct
    \/ DownloadAllObjectBegin
    \/ GetAllObject
    \/ MarkerWrite
    \/ GetAllObjectFail
    \/ \E i \in 1..Len(tasks) : PackDownloadStart(i)
    \/ \E i \in 1..Len(tasks) : PackDownloadFinish(i)
    \/ JoinAll
    \/ LoopExit
    \/ ReplayVerified
    \/ ReplayKeyOnly
    \/ ReplayRemove
    \/ ReplayWrite
    \/ ReplayRecurse

\* the steps of download_all_buckets around them
BucketsStep ==
    \/ ConstructDownLoad
    \/ BucketSkip
    \/ BucketRecord
    \/ BucketWrite
    \/ BucketsDone

\* main() with the action download, on one bucket
Init == Start("download")
Next == BucketStep \/ Restart
Spec == Init /\ [][Next]_vars

\* HuaWeiDownLoad.download_all_buckets
InitAll == Start("all")
NextAll == BucketStep \/ BucketsStep \/ Restart
SpecAll == InitAll /\ [][NextAll]_vars

\* the process is killed, or has ended, and the command verify is run
RestartVerify ==
    /\ pc # "start"
    /\ mode = "download"
    /\ restarts < MaxRestarts
    /\ restarts' = restarts + 1
    /\ mode' = "verify"
    /\ interrupted' = {}
    /\ Fresh
    /\ UNCHANGED <<disk, cfg, max_keys, persisted>>

\* the steps of path_correction
VerifyStep ==
    \/ PathCorrectionBegin
    \/ OpenCorrection
    \/ CorrectItem
    \/ PathCorrectionDone

\* main() with the action download, and then with the action verify
InitVerify == Start("download")
NextVerify == BucketStep \/ VerifyStep \/ Restart \/ RestartVerify
SpecVerify == InitVerify /\ [][NextVerify]_vars

\* page sizes that put several objects of a bucket into one page
PageSizes == {MaxKeys + 1, MaxKeys + 2}

\* main() with the action download, on one bucket listed in such pages, in a
\* run that is not interrupted
InitPage == Begin("download", PageSizes)
NextPage == BucketStep
SpecPage == InitPage /\ [][NextPage]_vars

(***************************************************************************)
(* Properties.                                                             *)
(***************************************************************************)
\* the file of key k under base is there with the checksum the service reports
Correct(base, k) ==
    /\ ObjectPath(base, k) \in DOMAIN files
    /\ Md5sum(files[ObjectPath(base, k)]) = ServiceEtag(k)

\* the ledger of the bucket holds the line '%s:%s' of key k
InLedger(k) ==
    \E j \in 1..Len(Readlines(ledgerFile[bucket].txt)) :
        Strip(Readlines(ledgerFile[bucket].txt)[j]) = Colon(ServiceEtag(k), k)

\* a listing that starts from the marker file of the bucket still returns k
NotYetListed(k) ==
    LET m == ProgressMarker(markerFile[bucket])
    IN  m.is_truncated /\ (m.next_marker = None \/ StrLess(m.next_marker, k))

\* r is one of the records of the sequence recs
InSeq(r, recs) == \E j \in 1..Len(recs) : recs[j] = r

\* C1: when the process is killed while the items of a listed page are being
\* downloaded, the run started next lists every key of that page again.
C1_InterruptedPageRelisted ==
    (pc = "exit" /\ interrupted # {}) => interrupted \subseteq listed

\* C2: whenever the process is not running, every object of the bucket is
\* correct on disk, or in the failure ledger, or still to be listed from the
\* persisted marker.
C2_NothingLost ==
    pc = "start" =>
        \A k \in ServiceKeys(cfg) :
            \/ Basename(k) = <<>>
            \/ Correct(BucketPath(bucket), k)
            \/ InLedger(k)
            \/ NotYetListed(k)

\* C3: a run that finds the marker of page 1 persisted makes its first listing
\* call with that marker, and lists no key at or before it.
C3_ResumesFromPersistedMarker ==
    resume # None =>
        /\ pc = "constructed" => next_marker = resume
        /\ \A k \in listed : StrLess(resume, k)

\* the buckets download_all_buckets is to download when rec was found recorded
ExpectedBuckets(rec) ==
    IF rec = None THEN BucketNames
    ELSE LET i == CHOOSE j \in 1..Len(BucketNames) : BucketNames[j] = rec
         IN  SubSeq(BucketNames, i, Len(BucketNames))

\* C4: download_all_buckets downloads, once each and in order, the recorded
\* bucket and every bucket after it, and every bucket when none is recorded.
C4_AllBucketsFromResumePoint ==
    pc = "exit" => processed = ExpectedBuckets(recorded)

\* C5: a ledger record whose key-only attempt succeeds is not kept for the
\* rewritten ledger, and once download_failure has returned the ledger holds
\* no line.
C5_ReplayConverges ==
    [][/\ (pc = "replay_key" /\ restarts' = restarts /\ ev'.ret = 1)
            => second_failure' = second_failure
       /\ replayExit' = "returned" => Readlines(ledgerFile'[bucket'].txt) = <<>>
      ]_vars

C5_Witness ==
    /\ pc = "exit"
    /\ replayExit = "returned"
    /\ restarts = 0
    /\ converged # {}
    /\ ~ledgerFile[bucket].ex

\* the records of the pass that are not kept for the rewritten ledger
Dropped ==
    {j \in 1..Len(lines) :
        Strip(lines[j]) # <<>> /\ ~InSeq(Record(lines[j]), second_failure)}

C7_BoundedReplay == replayExit # "RuntimeError"

\* the step is PackDownloadStart(i)
StartsTask(i) ==
    /\ restarts' = restarts
    /\ pc = "join"
    /\ tasks[i] = "spawned"
    /\ tasks'[i] # "spawned"

\* the step is ReplayVerified on a line that holds a record
TriesRecord ==
    /\ restarts' = restarts
    /\ pc = "replay"
    /\ idx <= Len(lines)
    /\ Len(Record(lines[idx])) = 2

\* the step is ReplayKeyOnly
TriesKey == restarts' = restarts /\ pc = "replay_key"

\* the step calls no getObject, leaves every file as it is and reports success
SkipsFetch == files' = files /\ ~ev'.net /\ ev'.ret = 1

\* C8: download_object called for an object whose file is already there with
\* the checksum the service reports calls no getObject, leaves the files
\* unchanged and does not report a failure; the key-only attempt of the
\* replay, which is given no checksum, is never made for such an object.
C8_IdempotentSkip ==
    [][/\ \A i \in 1..Len(tasks) :
            (StartsTask(i) /\ Correct(BasePath(BucketPath(bucket)), keys[i][2]))
                => (SkipsFetch /\ tasks'[i] = "done")
       /\ (TriesRecord /\ Correct(BasePath(rpath), Record(lines[idx])[2]))
            => SkipsFetch
       /\ TriesKey => ~Correct(BasePath(rpath), Record(lines[idx])[2])
      ]_vars

C8_Witness ==
    /\ ev.op \in {"download_object", "replay_verified"}
    /\ Basename(ev.key) # <<>>
    /\ ~ev.net
    /\ ev.ret = 1
    /\ Correct(ev.base, ev.key)

\* C9: download_object called for a key without a basename calls no
\* getObject, makes no directory, writes no file and no ledger line, and does
\* not report a failure; no record of such a key is ever replayed.
C9_DirectoryMarkerSkip ==
    [][/\ \A i \in 1..Len(tasks) :
            (StartsTask(i) /\ Basename(keys[i][2]) = <<>>)
                => /\ SkipsFetch
                   /\ tasks'[i] = "done"
                   /\ UNCHANGED <<dirs, ledgerFile>>
       /\ (TriesRecord \/ TriesKey) => Basename(Record(lines[idx])[2]) # <<>>
      ]_vars

C9_Witness ==
    /\ ev.op = "download_object"
    /\ ev.key = Kdir
    /\ ~ev.net
    /\ ev.ret = 1
    /\ \A p \in DOMAIN files \cup dirs : Len(p) <= Len(BucketPath(bucket))

\* C10 (as amended): when download_object was given a checksum and reports
\* success after a transfer, the file it wrote has the checksum the service
\* reports for the object.
C10_VerifiedRoundTrip ==
    (ev.op \in {"download_object", "replay_verified"} /\ ev.net /\ ev.ret = 1) =>
        /\ WrittenPath(ev.base, ev.key) \in DOMAIN files
        /\ Md5sum(files[WrittenPath(ev.base, ev.key)]) = ServiceEtag(ev.key)

C10_Witness ==
    /\ ev.op = "replay_verified"
    /\ ev.net
    /\ ev.ret = 1
    /\ Md5sum(files[WrittenPath(ev.base, ev.key)]) = ServiceEtag(ev.key)

\* C10 (as claimed): the same of every success after a transfer, the key-only
\* attempt of the replay included.
C10_RoundTrip ==
    (/\ ev.op \in {"download_object", "replay_verified", "replay_keyonly"}
     /\ ev.net
     /\ ev.ret = 1) =>
        /\ WrittenPath(ev.base, ev.key) \in DOMAIN files
        /\ Md5sum(files[WrittenPath(ev.base, ev.key)]) = ServiceEtag(ev.key)

\* the step is CorrectItem, path_object_mov being called for the key k
Corrects(k) ==
    /\ restarts' = restarts
    /\ pc = "correct"
    /\ keys # <<>>
    /\ keys[1][2] = k

\* C11: path_object_mov called for a key with a separator whose file lies at
\* the flat path and not at the nested one, and which meets no file system
\* error, leaves the file with the same content at the nested path and none
\* at the flat path.
C11_FlatFileMoved ==
    [][\A k \in ServiceKeys(cfg) :
          (/\ Corrects(k)
           /\ Contains(k, "/")
           /\ FlatPath(BucketPath(bucket), k) \in DOMAIN files
           /\ ~Exists(files, dirs, NestedPath(BucketPath(bucket), k))
           /\ ev'.ret = 1)
          => /\ NestedPath(BucketPath(bucket), k) \in DOMAIN files'
             /\ files'[NestedPath(BucketPath(bucket), k)]
                  = files[FlatPath(BucketPath(bucket), k)]
             /\ FlatPath(BucketPath(bucket), k) \notin DOMAIN files'
      ]_vars

C11_Witness ==
    /\ ev.op = "path_object_mov"
    /\ ev.ret = 1
    /\ ev.key = Kda
    /\ NestedPath(ev.base, Kda) \in DOMAIN files
    /\ ev.did = "move"
    /\ files[NestedPath(ev.base, Kda)] = Data(Ka)
    /\ FlatPath(ev.base, Kda) \notin DOMAIN files

\* C12: path_object_mov called for a key with a separator whose file lies both
\* at the flat path and at the nested one, and which meets no file system
\* error, removes the flat file and leaves the nested file as it was.
C12_FlatDuplicateRemoved ==
    [][\A k \in ServiceKeys(cfg) :
          (/\ Corrects(k)
           /\ Contains(k, "/")
           /\ FlatPath(BucketPath(bucket), k) \in DOMAIN files
           /\ NestedPath(BucketPath(bucket), k) \in DOMAIN files
           /\ ev'.ret = 1)
          => /\ FlatPath(BucketPath(bucket), k) \notin DOMAIN files'
             /\ NestedPath(BucketPath(bucket), k) \in DOMAIN files'
             /\ files'[NestedPath(BucketPath(bucket), k)]
                  = files[NestedPath(BucketPath(bucket), k)]
             /\ DOMAIN files' = DOMAIN files \ {FlatPath(BucketPath(bucket), k)}
      ]_vars

C12_Witness ==
    /\ ev.op = "path_object_mov"
    /\ ev.ret = 1
    /\ ev.did = "remove"
    /\ ev.key = Kda
    /\ NestedPath(ev.base, Kda) \in DOMAIN files
    /\ files[NestedPath(ev.base, Kda)] # Data(Ka)
    /\ FlatPath(ev.base, Kda) \notin DOMAIN files

\* C13: a run of path_correction leaves the marker file of the download as it
\* found it, and when its loop ends it has listed every object of the bucket,
\* whatever marker the download had persisted.
C13_CorrectionWalksWholeListing ==
    [][(mode = "verify" /\ mode' = "verify" /\ restarts' = restarts)
          => /\ markerFile' = markerFile
             /\ (pc' = "exit" /\ ev'.op = "finished")
                    => listed' = ServiceKeys(cfg)
      ]_vars

\* C14: when path_object_mov has reported a file system error for an object,
\* correction_failure.log holds a line for it and path_correction goes on.
C14_CorrectionFailureRecorded ==
    (ev.op = "path_object_mov" /\ ev.ret = 0)
        => /\ pc # "exit"
           /\ Readlines(corrFile[bucket].txt) # <<>>

\* C15: a listObjects call that raises leaves the marker file, the marker in
\* memory and the truncation flag as they were, and the loop is back at its
\* listing call, which asks for the same page.
C15_FailedListingKeepsProgress ==
    [][(restarts' = restarts /\ ev'.op = "listObjects" /\ ev'.ret = 0)
          => /\ markerFile' = markerFile
             /\ next_marker' = next_marker
             /\ is_truncated' = is_truncated
             /\ pc = "loop" /\ pc' = "loop"
             /\ ListObjects(cfg', next_marker', max_keys')
                  = ListObjects(cfg, next_marker, max_keys)
      ]_vars

C15_Witness ==
    /\ ev.op = "listObjects"
    /\ ev.ret = 0
    /\ pc = "loop"
    /\ next_marker # None
    /\ markerFile[bucket].ex
    /\ markerFile[bucket].txt = MarkerText(is_truncated, next_marker)

\* the step is the return of gevent.joinall
Joins == restarts' = restarts /\ pc = "join" /\ pc' = "loop"

\* the step is a listObjects call
Lists == restarts' = restarts /\ ev'.op = "listObjects"

\* C16: gevent.joinall returns, and the next listObjects call is made, only
\* when every greenlet of the page has ended; the greenlets that exist are
\* those of the page listed last; and a page holds only keys after those of
\* the pages listed before it.
C16_PageBarrier ==
    [][/\ Joins => \A i \in 1..Len(tasks) : tasks[i] = "done"
       /\ Lists => /\ pc = "loop"
                   /\ \A i \in 1..Len(tasks) : tasks[i] = "done"
       /\ (Lists /\ ev'.ret = 1)
            => \A k \in listed : \A i \in 1..Len(keys') : StrLess(k, keys'[i][2])
       /\ pc' = "join" => Len(tasks') = Len(keys')
      ]_vars

C16_Witness ==
    /\ ev.op = "listObjects"
    /\ ev.ret = 1
    /\ Cardinality(listed) > Len(keys)
    /\ Len(keys) > 0
    /\ max_keys > 1

\* the ledger line of the object k: '%s:%s' % (etag, key) and a newline
LedgerLine(k) == Colon(ServiceEtag(k), k) \o <<"\n">>

\* the objects listed so far whose download_object reported a failure, in a
\* run that has not yet replayed its ledger: those without a correct file
Failed ==
    {k \in listed : Basename(k) # <<>> /\ ~Correct(BucketPath(bucket), k)}

\* C17: in the page pass the ledger changes only when a download_object call
\* ends in a failure, and then by exactly the line of its object, appended
\* whole; when the barrier of a page is passed the ledger holds one line for
\* each object that failed and no other line.
C17_OneLinePerFailure ==
    [][(restarts' = restarts /\ pc = "join")
          => /\ IF ev'.op = "download_object" /\ ev'.ret = 0
                THEN /\ ledgerFile'[bucket].ex
                     /\ Readlines(ledgerFile'[bucket].txt)
                          = Append(Readlines(ledgerFile[bucket].txt),
                                   LedgerLine(ev'.key))
                ELSE ledgerFile' = ledgerFile
             /\ Joins =>
                  LET ls == Readlines(ledgerFile'[bucket].txt)
                  IN  /\ \A k \in Failed' : \E j \in 1..Len(ls) : ls[j] = LedgerLine(k)
                      /\ \A j \in 1..Len(ls) : \E k \in Failed' : ls[j] = LedgerLine(k)
                      /\ \A i, j \in 1..Len(ls) : ls[i] = ls[j] => i = j
      ]_vars

C17_Witness ==
    /\ ev.op = "joinall"
    /\ Cardinality(listed) = Cardinality(ServiceKeys(cfg))
    /\ Cardinality(listed) <= max_keys
    /\ Len(Readlines(ledgerFile[bucket].txt)) = Cardinality(Failed)
    /\ Cardinality(Failed) > 1

\* the records a running download_failure has not downloaded: those it keeps
\* for the rewritten ledger and those of the lines it has still to try
StillFailing ==
    {second_failure[j] : j \in 1..Len(second_failure)}
        \cup {Record(lines[j]) : j \in {i \in idx..Len(lines) : Strip(lines[i]) # <<>>}}

\* the ledger file of the bucket holds a line of the record r
OnDisk(r) ==
    \E j \in 1..Len(Readlines(ledgerFile[bucket].txt)) :
        /\ Strip(Readlines(ledgerFile[bucket].txt)[j]) # <<>>
        /\ Record(Readlines(ledgerFile[bucket].txt)[j]) = r

\* C18: at every point of download_failure the ledger file, which is what a
\* kill at that point leaves to the next run, holds every record that has not
\* been downloaded.
C18_LedgerSurvivesCrash ==
    pc \in {"replay", "replay_key", "replay_write", "cooldown"}
        => \A r \in StillFailing : ledgerFile[bucket].ex /\ OnDisk(r)

\* C19: whenever the greenlets of a listed page exist, the marker file holds
\* the truncation flag and the marker of the response that returned the page,
\* the final page included.
C19_MarkerFollowsEveryListing ==
    pc = "join"
        => /\ markerFile[bucket].ex
           /\ markerFile[bucket].txt = MarkerText(is_truncated, next_marker)

\* C20: every transfer of a download attempt, in the page pass and in every
\* replay pass, is directed at the directory of the bucket, and every file on
\* disk lies under the directory of a bucket.
C20_OneDestinationPerKey ==
    /\ (ev.net /\ ev.op \in {"download_object", "replay_verified", "replay_keyonly"})
          => ev.base = BucketPath(bucket)
    /\ \A p \in DOMAIN files :
          \E b \in BucketSet :
             /\ Len(p) > Len(BucketPath(b))
             /\ SubSeq(p, 1, Len(BucketPath(b))) = BucketPath(b)

\* C21: no step of the correction pass removes or moves the correct file of a
\* listed object: the file of a key of the bucket that has the checksum the
\* service reports before path_object_mov is called for any key is still at
\* its path with the same content afterwards.
C21_CorrectionKeepsCorrectFiles ==
    [][\A k \in ServiceKeys(cfg) :
          Corrects(k)
             => \A r \in ServiceKeys(cfg) :
                   Correct(BucketPath(bucket), r)
                      => /\ ObjectPath(BucketPath(bucket), r) \in DOMAIN files'
                         /\ files'[ObjectPath(BucketPath(bucket), r)]
                              = files[ObjectPath(BucketPath(bucket), r)]
      ]_vars

====
